---- MODULE Spec2Model ----
(***************************************************************************)
(* A state-machine model of the x-clock display core (src/x_clock.py):     *)
(* the XClock object, the per-frame render() and the OSC setters.          *)
(*                                                                         *)
(* Time is counted in ticks of 1/Res second.  The time cursor is kept      *)
(* modulo one day, the only part of a datetime that strftime("%H%M") and   *)
(* replace(hour, minute, second) depend on.  Brightness is an exact        *)
(* fraction <<numerator, denominator>>.                                    *)
(***************************************************************************)
EXTENDS Integers, Sequences, FiniteSets, TLC

\* ---------------------------------------------------------------- bounds
\* The modelled day: Hours hours of Minutes minutes of Seconds seconds.
Hours == 2
Minutes == 2
Seconds == 2
\* Ticks per second (the resolution of time.time() in the model).
Res == 2
\* A frame's real elapsed time is 1..MaxReal ticks.
MaxReal == 1
\* Commands received in one run.
MaxCmds == 2
\* In the glitch specifications a command arrives within MaxGap ticks of
\* start-up or of the command before it.
MaxGap == 2

\* The numeral-glitch countdown is followed down to -MaxBelow.
MaxBelow == 3

\* A fade that cannot end is followed for MaxRun ticks.
MaxRun == 3

\* Commands received in one run of the blink specification.
MaxBlinkCmds == 3

\* ------------------------------------------------------------- fractions
RECURSIVE GCD(_, _)
GCD(a, b) == IF b = 0 THEN a ELSE GCD(b, a % b)

Abs(x) == IF x < 0 THEN -x ELSE x

\* The fraction n/d in lowest terms with a positive denominator (d # 0).
Frac(n, d) ==
    LET g == GCD(Abs(n), Abs(d))
        s == IF d < 0 THEN -1 ELSE 1
    IN  <<(s * n) \div g, (s * d) \div g>>

FInt(i) == <<i, 1>>
FAdd(a, b) == Frac(a[1] * b[2] + b[1] * a[2], a[2] * b[2])
FSub(a, b) == Frac(a[1] * b[2] - b[1] * a[2], a[2] * b[2])
FMul(a, b) == Frac(a[1] * b[1], a[2] * b[2])
FLt(a, b) == a[1] * b[2] < b[1] * a[2]
FLe(a, b) == a[1] * b[2] <= b[1] * a[2]
FMin(a, b) == IF FLt(b, a) THEN b ELSE a
FMax(a, b) == IF FLt(a, b) THEN b ELSE a

\* ------------------------------------------------------------------ time
DayTicks == Hours * Minutes * Seconds * Res
HourOf(t) == t \div (Minutes * Seconds * Res)
MinuteOf(t) == (t \div (Seconds * Res)) % Minutes
SecondOf(t) == (t \div Res) % Seconds
SubOf(t) == t % Res

\* datetime.replace(hour=h, minute=m, second=s): the sub-second part is kept.
\* It raises ValueError when a field is out of range (ValidHM).
ValidHM(h, m) == h \in 0..(Hours - 1) /\ m \in 0..(Minutes - 1)
replace(t, h, m, s) == ((h * Minutes + m) * Seconds + s) * Res + SubOf(t)
replace_second(t, s) == replace(t, HourOf(t), MinuteOf(t), s)

\* datetime + timedelta, modulo the day.
AddTicks(t, dt) == (t + dt) % DayTicks

\* strftime("%H%M"): four decimal digit characters.
DigitChars == <<"0", "1", "2", "3", "4", "5", "6", "7", "8", "9">>
DigitChar(d) == DigitChars[d + 1]
strftime_HHMM(t) ==
    <<DigitChar(HourOf(t) \div 10), DigitChar(HourOf(t) % 10),
      DigitChar(MinuteOf(t) \div 10), DigitChar(MinuteOf(t) % 10)>>

\* ------------------------------------------------------------- constants
GLITCH_MODE_OFF == 0
GLITCH_MODE_ON == 1
GLITCH_MODE_RANDOM == 2
GLITCH_MODE_SINGLE == 3
\* None, for the optional datetimes freeze_time and fade_snap_time.
NoTime == -1
\* fade_time of a new XClock, in seconds.
FADE_TIME_DEFAULT == 10
\* target_brightness of a new XClock, and the top of the brightness range.
FULL_BRIGHTNESS == 100

\* Panel width in pixels (the --led-cols option) and the pixel width of one
\* character of the scrolling-text font, both scaled down.
PanelWidth == 2
CharWidth == 1

\* ------------------------------------------------------------ the object
\* self.image: what the frame buffer shows.  slots[i] is the glyph and colour
\* stamped at NUMBER_POSITIONS[i - 1], colon the ":" glyph, text the scrolling
\* text, glitches the number of make_glitch passes over the buffer, enhance
\* the brightness the buffer was scaled by (NoEnhance when it was not).
NoGlyph == [glyph |-> " ", color |-> "None"]
NoEnhance == <<-1, 1>>
NewImage(bg) ==
    [bg |-> bg, slots |-> <<NoGlyph, NoGlyph, NoGlyph, NoGlyph>>,
     colon |-> FALSE, text |-> FALSE, glitches |-> 0, enhance |-> NoEnhance]

\* What the last render() did (observations, not program state).
NoEvents ==
    [drew_time |-> FALSE, n_drew |-> FALSE, x_ran |-> FALSE, x_roll |-> FALSE,
     x_start |-> FALSE, x_new |-> <<>>, x_cleared |-> FALSE, g_roll |-> FALSE,
     g_burst |-> FALSE, faded |-> FALSE, snapped |-> FALSE, dark |-> FALSE,
     time_disp |-> <<>>, x_draw |-> -1, g_draw |-> -1]

\* XClock's fields after construction (the dataclass defaults).  exc is the
\* exception the running method has raised: "" none, "Cleared", or "Error".
\* StartTime is datetime.now() at start-up.
XClock(StartTime) ==
    [image |-> NewImage("000000"),
     glitch_mode |-> GLITCH_MODE_OFF, glitch_freq |-> 0, glitch_step |-> 0,
     glitch_intensity |-> 4,
     blink_all |-> FALSE, blink_dots |-> TRUE, blink_state |-> TRUE,
     show_dots |-> TRUE, show_numbers |-> TRUE,
     x_glitch_mode |-> GLITCH_MODE_OFF, x_glitch_step |-> 0,
     x_glitch_freq |-> 0, x_glitch_frames |-> 0, x_glitch_number |-> 0,
     x_positions |-> <<>>,
     text_color |-> "29b6f6", x_color |-> "c70000", background |-> "000000",
     fade_time |-> FADE_TIME_DEFAULT * Res, fade_elapsed |-> 0,
     brightness |-> FInt(0), last_brightness |-> FInt(0),
     target_brightness |-> FInt(FULL_BRIGHTNESS),
     current_time |-> StartTime, real_elapsed |-> 0,
     time_dilation_factor |-> 1, numbers_glitch_step |-> 0,
     fade_snap_next_brightness |-> FInt(0), fade_snap_time |-> NoTime,
     fade_snap_clear_x |-> FALSE, freeze_time |-> NoTime,
     scrolling_text |-> <<>>, text_scroll_offset |-> 0,
     exc |-> "", ev |-> NoEvents]

\* self.freeze_time or self.current_time: the time the display and the status
\* snapshot show.
DisplayedTime(st) ==
    IF st.freeze_time # NoTime THEN st.freeze_time ELSE st.current_time

\* The time part of the status snapshot (the state property).
state(st) ==
    [time |-> [hour |-> HourOf(DisplayedTime(st)),
               minute |-> MinuteOf(DisplayedTime(st)),
               frozen |-> st.freeze_time # NoTime]]

\* Sequential composition of methods that may raise and may draw at random:
\* F runs from every state of S in which nothing has been raised yet.
Bind(S, F(_)) == UNION {IF s.exc = "" THEN F(s) ELSE {s} : s \in S}

\* ---------------------------------------------------------- clock engine
\* tick_tock advancing the time cursor by the real elapsed time, undilated.
tick_tock_undilated(st, real) ==
    LET dilated == real * st.time_dilation_factor
        ct == AddTicks(st.current_time, real)
        blinking == st.blink_dots \/ st.blink_all
        bs == IF ~blinking THEN st.blink_state
              ELSE IF Abs(dilated) > Res THEN ~st.blink_state
              ELSE 2 * SubOf(ct) >= Res
    IN  [st EXCEPT !.real_elapsed = real,
                   !.current_time = ct,
                   !.blink_state = bs,
                   !.show_dots = IF blinking THEN bs ELSE @,
                   !.show_numbers = IF st.blink_all THEN bs ELSE @]

tick_tock(st, real) ==
    LET dilated == real * st.time_dilation_factor
        ct == AddTicks(st.current_time, dilated)
        blinking == st.blink_dots \/ st.blink_all
        bs == IF ~blinking THEN st.blink_state
              ELSE IF Abs(dilated) > Res THEN ~st.blink_state
              ELSE 2 * SubOf(ct) >= Res
    IN  [st EXCEPT !.real_elapsed = real,
                   !.current_time = ct,
                   !.blink_state = bs,
                   !.show_dots = IF blinking THEN bs ELSE @,
                   !.show_numbers = IF st.blink_all THEN bs ELSE @]

draw_glyph(st, glyph, pos, color) ==
    [st EXCEPT !.image.slots[pos + 1] =
        [glyph |-> glyph,
         color |-> IF color # "None" THEN color ELSE st.text_color]]

draw_scrolling_text(st) ==
    LET text_width == Len(st.scrolling_text) * CharWidth
        off == st.text_scroll_offset + 1
    IN  [st EXCEPT !.image.text = TRUE,
                   !.text_scroll_offset =
                       IF off > text_width + PanelWidth THEN 0 ELSE off]

\* update_clock drawing current_time whether or not the clock is frozen.
update_clock_unfrozen(st) ==
    IF st.scrolling_text # <<>>
    THEN draw_scrolling_text(st)
    ELSE LET time_disp == strftime_HHMM(st.current_time)
             s0 == [st EXCEPT !.image.colon = st.show_dots,
                              !.ev.drew_time = TRUE,
                              !.ev.time_disp = time_disp]
             s1 == draw_glyph(s0, time_disp[1], 0, "None")
             s2 == draw_glyph(s1, time_disp[2], 1, "None")
             s3 == draw_glyph(s2, time_disp[3], 2, "None")
         IN  draw_glyph(s3, time_disp[4], 3, "None")

update_clock(st) ==
    IF st.scrolling_text # <<>>
    THEN draw_scrolling_text(st)
    ELSE LET time_disp == strftime_HHMM(DisplayedTime(st))
             s0 == [st EXCEPT !.image.colon = st.show_dots,
                              !.ev.drew_time = TRUE,
                              !.ev.time_disp = time_disp]
             s1 == draw_glyph(s0, time_disp[1], 0, "None")
             s2 == draw_glyph(s1, time_disp[2], 1, "None")
             s3 == draw_glyph(s2, time_disp[3], 2, "None")
         IN  draw_glyph(s3, time_disp[4], 3, "None")

\* ---------------------------------------------------------- glitch engine
\* random.randint(0, 10000) <= freq: the comparison is monotone in the draw,
\* so the least and the greatest draw give every outcome some draw gives.
RAND_MAX == 10000
Draws == {0, RAND_MAX}

\* random.randint(3, 7): the length of a visual glitch burst.
BURST_MIN == 3
BURST_MAX == 7

\* numbers_glitch's random.randint(0, 9), sampled.
RandomDigits == {"0", "7"}

\* The orders random.shuffle can leave [0, 1, 2, 3] in.
Slots == 0..3
Shuffles == {[i \in 1..4 |-> p[i] - 1] : p \in Permutations(1..4)}

\* Python's seq[:n]: the first n items, all but the last -n when n < 0.
PySlice(seq, n) ==
    LET k == IF n >= 0 THEN n ELSE Len(seq) + n
        m == IF k < 0 THEN 0 ELSE IF k > Len(seq) THEN Len(seq) ELSE k
    IN  SubSeq(seq, 1, m)

start_x_glitch(st) ==
    {[st EXCEPT !.x_positions = x_positions,
                !.x_glitch_step = st.x_glitch_frames,
                !.ev.x_start = TRUE,
                !.ev.x_new = x_positions]
     : x_positions \in {PySlice(p, st.x_glitch_number) : p \in Shuffles}}

\* x_glitch leaving the single-shot mode on after its trigger.
x_glitch_single_stays(st) ==
    LET dec == st.x_glitch_step > 0
        step == IF dec THEN st.x_glitch_step - 1 ELSE st.x_glitch_step
        clr == dec /\ step <= 0
        s1 == [st EXCEPT !.x_glitch_step = step,
                         !.x_positions = IF clr THEN <<>> ELSE @,
                         !.ev.x_ran = TRUE,
                         !.ev.x_cleared = clr]
    IN  IF s1.x_glitch_mode = GLITCH_MODE_OFF THEN {s1}
        ELSE IF s1.x_glitch_mode = GLITCH_MODE_RANDOM
        THEN IF s1.x_glitch_step = 0
             THEN UNION {IF draw <= s1.x_glitch_freq
                         THEN start_x_glitch([s1 EXCEPT !.ev.x_roll = TRUE,
                                                        !.ev.x_draw = draw])
                         ELSE {[s1 EXCEPT !.ev.x_roll = TRUE,
                                          !.ev.x_draw = draw]}
                         : draw \in Draws}
             ELSE {s1}
        ELSE IF s1.x_glitch_mode = GLITCH_MODE_SINGLE
        THEN start_x_glitch(s1)
        ELSE {s1}

\* x_glitch clearing the overlay one frame late (step < 0 for step <= 0).
x_glitch_late(st) ==
    LET dec == st.x_glitch_step > 0
        step == IF dec THEN st.x_glitch_step - 1 ELSE st.x_glitch_step
        clr == dec /\ step < 0
        s1 == [st EXCEPT !.x_glitch_step = step,
                         !.x_positions = IF clr THEN <<>> ELSE @,
                         !.ev.x_ran = TRUE,
                         !.ev.x_cleared = clr]
    IN  IF s1.x_glitch_mode = GLITCH_MODE_OFF THEN {s1}
        ELSE IF s1.x_glitch_mode = GLITCH_MODE_RANDOM
        THEN IF s1.x_glitch_step = 0
             THEN UNION {IF draw <= s1.x_glitch_freq
                         THEN start_x_glitch([s1 EXCEPT !.ev.x_roll = TRUE,
                                                        !.ev.x_draw = draw])
                         ELSE {[s1 EXCEPT !.ev.x_roll = TRUE,
                                          !.ev.x_draw = draw]}
                         : draw \in Draws}
             ELSE {s1}
        ELSE IF s1.x_glitch_mode = GLITCH_MODE_SINGLE
        THEN start_x_glitch([s1 EXCEPT !.x_glitch_mode = GLITCH_MODE_OFF])
        ELSE {s1}

\* x_glitch rolling in probabilistic mode whatever the countdown is at.
x_glitch_roll_always(st) ==
    LET dec == st.x_glitch_step > 0
        step == IF dec THEN st.x_glitch_step - 1 ELSE st.x_glitch_step
        clr == dec /\ step <= 0
        s1 == [st EXCEPT !.x_glitch_step = step,
                         !.x_positions = IF clr THEN <<>> ELSE @,
                         !.ev.x_ran = TRUE,
                         !.ev.x_cleared = clr]
    IN  IF s1.x_glitch_mode = GLITCH_MODE_OFF THEN {s1}
        ELSE IF s1.x_glitch_mode = GLITCH_MODE_RANDOM
        THEN UNION {IF draw <= s1.x_glitch_freq
                    THEN start_x_glitch([s1 EXCEPT !.ev.x_roll = TRUE,
                                                   !.ev.x_draw = draw])
                    ELSE {[s1 EXCEPT !.ev.x_roll = TRUE,
                                     !.ev.x_draw = draw]}
                    : draw \in Draws}
        ELSE IF s1.x_glitch_mode = GLITCH_MODE_SINGLE
        THEN start_x_glitch([s1 EXCEPT !.x_glitch_mode = GLITCH_MODE_OFF])
        ELSE {s1}

x_glitch(st) ==
    LET dec == st.x_glitch_step > 0
        step == IF dec THEN st.x_glitch_step - 1 ELSE st.x_glitch_step
        clr == dec /\ step <= 0
        s1 == [st EXCEPT !.x_glitch_step = step,
                         !.x_positions = IF clr THEN <<>> ELSE @,
                         !.ev.x_ran = TRUE,
                         !.ev.x_cleared = clr]
    IN  IF s1.x_glitch_mode = GLITCH_MODE_OFF THEN {s1}
        ELSE IF s1.x_glitch_mode = GLITCH_MODE_RANDOM
        THEN IF s1.x_glitch_step = 0
             THEN UNION {IF draw <= s1.x_glitch_freq
                         THEN start_x_glitch([s1 EXCEPT !.ev.x_roll = TRUE,
                                                        !.ev.x_draw = draw])
                         ELSE {[s1 EXCEPT !.ev.x_roll = TRUE,
                                          !.ev.x_draw = draw]}
                         : draw \in Draws}
             ELSE {s1}
        ELSE IF s1.x_glitch_mode = GLITCH_MODE_SINGLE
        THEN start_x_glitch([s1 EXCEPT !.x_glitch_mode = GLITCH_MODE_OFF])
        ELSE {s1}

RECURSIVE draw_x_from(_, _)
draw_x_from(st, i) ==
    IF i > Len(st.x_positions) THEN st
    ELSE draw_x_from(draw_glyph(st, "X", st.x_positions[i], st.x_color), i + 1)

draw_x(st) == draw_x_from(st, 1)

\* random.randint(int(intensity / 2), intensity) raises ValueError on an empty
\* range, which is every negative intensity.
make_glitch(st) ==
    IF st.glitch_intensity < 0
    THEN [st EXCEPT !.exc = "Error"]
    ELSE [st EXCEPT !.image.glitches = @ + 1]

\* do_glitch treating the continuous mode as the probabilistic one.
do_glitch_on_rolls(st) ==
    LET s1 == IF st.glitch_step > 0
              THEN make_glitch([st EXCEPT !.glitch_step = @ - 1])
              ELSE st
    IN  IF s1.exc # "" \/ s1.glitch_mode = GLITCH_MODE_OFF THEN {s1}
        ELSE IF s1.glitch_mode \in {GLITCH_MODE_ON, GLITCH_MODE_RANDOM}
                /\ s1.glitch_step = 0
        THEN UNION {IF draw <= s1.glitch_freq
                    THEN {[s1 EXCEPT !.glitch_step = n,
                                     !.ev.g_roll = TRUE,
                                     !.ev.g_draw = draw,
                                     !.ev.g_burst = TRUE]
                          : n \in BURST_MIN..BURST_MAX}
                    ELSE {[s1 EXCEPT !.ev.g_roll = TRUE,
                                     !.ev.g_draw = draw]}
                    : draw \in Draws}
        ELSE {s1}

\* do_glitch returning in mode off before the burst countdown.
do_glitch_off_first(st) ==
    IF st.glitch_mode = GLITCH_MODE_OFF THEN {st}
    ELSE
    LET s1 == IF st.glitch_step > 0
              THEN make_glitch([st EXCEPT !.glitch_step = @ - 1])
              ELSE st
    IN  IF s1.exc # "" THEN {s1}
        ELSE IF s1.glitch_mode = GLITCH_MODE_ON THEN {make_glitch(s1)}
        ELSE IF s1.glitch_mode = GLITCH_MODE_RANDOM /\ s1.glitch_step = 0
        THEN UNION {IF draw <= s1.glitch_freq
                    THEN {[s1 EXCEPT !.glitch_step = n,
                                     !.ev.g_roll = TRUE,
                                     !.ev.g_draw = draw,
                                     !.ev.g_burst = TRUE]
                          : n \in BURST_MIN..BURST_MAX}
                    ELSE {[s1 EXCEPT !.ev.g_roll = TRUE,
                                     !.ev.g_draw = draw]}
                    : draw \in Draws}
        ELSE {s1}

do_glitch(st) ==
    LET s1 == IF st.glitch_step > 0
              THEN make_glitch([st EXCEPT !.glitch_step = @ - 1])
              ELSE st
    IN  IF s1.exc # "" \/ s1.glitch_mode = GLITCH_MODE_OFF THEN {s1}
        ELSE IF s1.glitch_mode = GLITCH_MODE_ON THEN {make_glitch(s1)}
        ELSE IF s1.glitch_mode = GLITCH_MODE_RANDOM /\ s1.glitch_step = 0
        THEN UNION {IF draw <= s1.glitch_freq
                    THEN {[s1 EXCEPT !.glitch_step = n,
                                     !.ev.g_roll = TRUE,
                                     !.ev.g_draw = draw,
                                     !.ev.g_burst = TRUE]
                          : n \in BURST_MIN..BURST_MAX}
                    ELSE {[s1 EXCEPT !.ev.g_roll = TRUE,
                                     !.ev.g_draw = draw]}
                    : draw \in Draws}
        ELSE {s1}

numbers_glitch(st) ==
    IF st.numbers_glitch_step # 0
    THEN {[draw_glyph(draw_glyph(draw_glyph(draw_glyph(
               st, d[1], 0, "None"), d[2], 1, "None"), d[3], 2, "None"),
               d[4], 3, "None")
           EXCEPT !.numbers_glitch_step = @ - 1, !.ev.n_drew = TRUE]
          : d \in [1..4 -> RandomDigits]}
    ELSE {st}

\* ------------------------------------------------------- fade controller
\* step_fade with the snap leaving the time cursor where it is.
step_fade_no_jump(st) ==
    IF st.target_brightness = st.brightness THEN st
    ELSE IF st.fade_time = 0 THEN [st EXCEPT !.exc = "Error"]
    ELSE
    LET elapsed == st.fade_elapsed + st.real_elapsed
        fade_pct == Frac(elapsed, st.fade_time)
        brightness_offset ==
            FMul(FSub(st.target_brightness, st.last_brightness), fade_pct)
        b == IF FLt(fade_pct, FInt(1))
             THEN FAdd(st.last_brightness, brightness_offset)
             ELSE st.target_brightness
        s1 == [st EXCEPT !.fade_elapsed = elapsed, !.brightness = b,
                         !.ev.faded = TRUE]
    IN  IF s1.fade_snap_time # NoTime /\ s1.brightness = s1.target_brightness
        THEN [s1 EXCEPT
                !.x_positions = IF s1.fade_snap_clear_x THEN <<>> ELSE @,
                !.fade_snap_time = NoTime,
                !.target_brightness = s1.fade_snap_next_brightness,
                !.ev.snapped = TRUE]
        ELSE s1

\* step_fade counting dilated time, not real time.
step_fade_dilated(st) ==
    IF st.target_brightness = st.brightness THEN st
    ELSE IF st.fade_time = 0 THEN [st EXCEPT !.exc = "Error"]
    ELSE
    LET elapsed == st.fade_elapsed + st.real_elapsed * st.time_dilation_factor
        fade_pct == Frac(elapsed, st.fade_time)
        brightness_offset ==
            FMul(FSub(st.target_brightness, st.last_brightness), fade_pct)
        b == IF FLt(fade_pct, FInt(1))
             THEN FAdd(st.last_brightness, brightness_offset)
             ELSE st.target_brightness
        s1 == [st EXCEPT !.fade_elapsed = elapsed, !.brightness = b,
                         !.ev.faded = TRUE]
    IN  IF s1.fade_snap_time # NoTime /\ s1.brightness = s1.target_brightness
        THEN [s1 EXCEPT
                !.x_positions = IF s1.fade_snap_clear_x THEN <<>> ELSE @,
                !.current_time = s1.fade_snap_time,
                !.fade_snap_time = NoTime,
                !.target_brightness = s1.fade_snap_next_brightness,
                !.ev.snapped = TRUE]
        ELSE s1

step_fade(st) ==
    IF st.target_brightness = st.brightness THEN st
    ELSE IF st.fade_time = 0 THEN [st EXCEPT !.exc = "Error"]
    ELSE
    LET elapsed == st.fade_elapsed + st.real_elapsed
        fade_pct == Frac(elapsed, st.fade_time)
        brightness_offset ==
            FMul(FSub(st.target_brightness, st.last_brightness), fade_pct)
        b == IF FLt(fade_pct, FInt(1))
             THEN FAdd(st.last_brightness, brightness_offset)
             ELSE st.target_brightness
        s1 == [st EXCEPT !.fade_elapsed = elapsed, !.brightness = b,
                         !.ev.faded = TRUE]
    IN  IF s1.fade_snap_time # NoTime /\ s1.brightness = s1.target_brightness
        THEN [s1 EXCEPT
                !.x_positions = IF s1.fade_snap_clear_x THEN <<>> ELSE @,
                !.current_time = s1.fade_snap_time,
                !.fade_snap_time = NoTime,
                !.target_brightness = s1.fade_snap_next_brightness,
                !.ev.snapped = TRUE]
        ELSE s1

\* ------------------------------------------------------------- renderer
Cleared(st) == [st EXCEPT !.exc = "Cleared"]

render_blink(st) ==
    IF ~st.show_numbers THEN Cleared(st)
    ELSE IF st.brightness # FInt(FULL_BRIGHTNESS)
    THEN [st EXCEPT !.image.enhance = st.brightness]
    ELSE st

\* render drawing the X glyphs before the numeral glitch.
render_draw_x_first(st) ==
    LET a == Bind({update_clock(st)}, x_glitch)
        b == Bind({draw_x(s) : s \in a}, numbers_glitch)
        c == Bind(b, do_glitch)
        d == Bind(c, LAMBDA s : {step_fade(s)})
    IN  Bind(d, LAMBDA s : {render_blink(s)})

\* render testing show_numbers before the fade controller step.
render_draw_blank_first(st) ==
    LET a == numbers_glitch(update_clock(st))
        b == Bind(a, x_glitch)
        c == Bind({draw_x(s) : s \in b}, do_glitch)
        d == Bind(c, LAMBDA s : {IF ~s.show_numbers THEN Cleared(s) ELSE s})
        e == Bind(d, LAMBDA s : {step_fade(s)})
    IN  Bind(e, LAMBDA s : {render_blink(s)})

render_draw(st) ==
    LET a == numbers_glitch(update_clock(st))
        b == Bind(a, x_glitch)
        c == Bind({draw_x(s) : s \in b}, do_glitch)
        d == Bind(c, LAMBDA s : {step_fade(s)})
    IN  Bind(d, LAMBDA s : {render_blink(s)})

\* render testing for the dark display after drawing the frame.
render_dark_last(st, real) ==
    LET s0 == [st EXCEPT !.image = NewImage(st.background),
                         !.ev = NoEvents, !.exc = ""]
        s1 == tick_tock(s0, real)
    IN  IF s1.brightness = FInt(0) /\ s1.target_brightness = FInt(0)
        THEN {Cleared([s EXCEPT !.ev.dark = TRUE]) : s \in render_draw(s1)}
        ELSE render_draw(s1)

\* The states render() can end in, exc telling how it ended.
render(st, real) ==
    LET s0 == [st EXCEPT !.image = NewImage(st.background),
                         !.ev = NoEvents, !.exc = ""]
        s1 == tick_tock(s0, real)
    IN  IF s1.brightness = FInt(0) /\ s1.target_brightness = FInt(0)
        THEN {Cleared([s1 EXCEPT !.ev.dark = TRUE])}
        ELSE render_draw(s1)

\* -------------------------------------------------------------- setters
\* A setter that raises leaves exc = "Error" in the state it had reached.
Raise(st) == [st EXCEPT !.exc = "Error"]

\* color_to_rgb: an HTML colour name or a hex value to RGB (written here as
\* lower-case hex), None when it is neither.
ColorNames == [red |-> "ff0000", white |-> "ffffff", black |-> "000000"]
HexColors == {"29b6f6", "c70000", "00ff00"}
color_to_rgb(color) ==
    IF color \in DOMAIN ColorNames THEN ColorNames[color]
    ELSE IF color \in HexColors THEN color
    ELSE "None"

set_random_glitch(st, freq, intensity) ==
    LET s1 == [st EXCEPT !.glitch_intensity = intensity]
    IN  IF freq = -1 THEN [s1 EXCEPT !.glitch_mode = GLITCH_MODE_ON]
        ELSE IF freq = 0 THEN [s1 EXCEPT !.glitch_mode = GLITCH_MODE_OFF]
        ELSE [s1 EXCEPT !.glitch_mode = GLITCH_MODE_RANDOM,
                        !.glitch_freq = freq]

\* color is "None" for an omitted argument.
set_x_color(st, color) ==
    IF color # "None" /\ color # ""
    THEN [st EXCEPT !.x_color =
             IF color_to_rgb(color) # "None" THEN color_to_rgb(color) ELSE @]
    ELSE st

set_single_x_glitch(st, num, frames, color) ==
    [set_x_color(st, color) EXCEPT !.x_glitch_number = num,
                                   !.x_glitch_frames = frames,
                                   !.x_glitch_mode = GLITCH_MODE_SINGLE]

\* set_random_x_glitch without the freq == 0 branch.
set_random_x_glitch_no_off(st, freq, num, frames, color) ==
    [set_single_x_glitch(st, num, frames, color)
        EXCEPT !.x_glitch_freq = freq, !.x_glitch_mode = GLITCH_MODE_RANDOM]

set_random_x_glitch(st, freq, num, frames, color) ==
    IF freq = 0 THEN [st EXCEPT !.x_glitch_mode = GLITCH_MODE_OFF]
    ELSE [set_single_x_glitch(st, num, frames, color)
             EXCEPT !.x_glitch_freq = freq,
                    !.x_glitch_mode = GLITCH_MODE_RANDOM]

\* set_x_positions without the length check.
set_x_positions_any_length(st, positions, color) ==
    LET s1 == [st EXCEPT !.x_glitch_mode = GLITCH_MODE_OFF,
                         !.x_glitch_step = 0]
        positions_array ==
            SelectSeq([i \in 1..Len(positions) |-> i - 1],
                      LAMBDA idx : positions[idx + 1] = "X")
    IN  [set_x_color(s1, color) EXCEPT !.x_positions = positions_array]

\* positions is the string as a sequence of characters.
set_x_positions(st, positions, color) ==
    IF Len(positions) # 4 THEN st
    ELSE LET s1 == [st EXCEPT !.x_glitch_mode = GLITCH_MODE_OFF,
                              !.x_glitch_step = 0]
             positions_array ==
                 SelectSeq([i \in 1..Len(positions) |-> i - 1],
                           LAMBDA idx : positions[idx + 1] = "X")
         IN  [set_x_color(s1, color) EXCEPT !.x_positions = positions_array]

\* color[0] of an empty string raises IndexError.
set_color(st, color) ==
    IF color = "" THEN Raise(st)
    ELSE [st EXCEPT !.text_color = color_to_rgb(color)]

set_bg(st, color) ==
    IF color = "" THEN Raise(st)
    ELSE [st EXCEPT !.background = color_to_rgb(color)]

\* set_time leaving freeze_time as it is.
set_time_keep_freeze(st, hour, minute) ==
    IF ~ValidHM(hour, minute) THEN Raise(st)
    ELSE [st EXCEPT !.current_time = replace(st.current_time, hour, minute, 0)]

set_time(st, hour, minute) ==
    IF ~ValidHM(hour, minute) THEN Raise(st)
    ELSE [st EXCEPT !.current_time = replace(st.current_time, hour, minute, 0),
                    !.freeze_time = NoTime]

\* set_freeze that unfreezes without restoring the time cursor.
set_freeze_no_restore(st, enabled) ==
    IF enabled = 0 /\ st.freeze_time # NoTime
    THEN [st EXCEPT !.freeze_time = NoTime]
    ELSE IF enabled # 0 /\ st.freeze_time = NoTime
    THEN [st EXCEPT !.freeze_time = st.current_time]
    ELSE st

\* set_freeze capturing the time cursor again when already frozen.
set_freeze_recapture(st, enabled) ==
    IF enabled = 0 /\ st.freeze_time # NoTime
    THEN [st EXCEPT !.current_time = st.freeze_time, !.freeze_time = NoTime]
    ELSE IF enabled # 0
    THEN [st EXCEPT !.freeze_time = st.current_time]
    ELSE st

set_freeze(st, enabled) ==
    IF enabled = 0 /\ st.freeze_time # NoTime
    THEN [st EXCEPT !.current_time = st.freeze_time, !.freeze_time = NoTime]
    ELSE IF enabled # 0 /\ st.freeze_time = NoTime
    THEN [st EXCEPT !.freeze_time = st.current_time]
    ELSE st

set_glitch_to(st, hour, minute, frames) ==
    LET s1 == set_time(st, hour, minute)
    IN  IF s1.exc # "" THEN s1
        ELSE [s1 EXCEPT !.numbers_glitch_step = frames]

set_blink_dots(st, enabled) ==
    [st EXCEPT !.blink_dots = (enabled = 1), !.show_dots = ~(enabled = 1)]

\* set_blink_all leaving show_numbers as the last blink phase left it.
set_blink_all_keep_phase(st, enabled) ==
    [st EXCEPT !.blink_all = (enabled = 1),
               !.show_numbers = IF enabled = 1 THEN FALSE ELSE @]

set_blink_all(st, enabled) ==
    [st EXCEPT !.blink_all = (enabled = 1), !.show_numbers = ~(enabled = 1)]

\* set_normal without the set_freeze(0) call.
set_normal_no_unfreeze(st) ==
    LET s1 == [st EXCEPT !.x_glitch_mode = GLITCH_MODE_OFF]
        s2 == set_blink_dots(set_blink_all(s1, 0), 1)
    IN  [s2 EXCEPT !.glitch_mode = GLITCH_MODE_OFF,
                   !.time_dilation_factor = 1,
                   !.current_time = replace_second(s2.current_time, 0),
                   !.x_positions = <<>>,
                   !.x_color = s2.text_color]

set_normal(st) ==
    LET s1 == [st EXCEPT !.x_glitch_mode = GLITCH_MODE_OFF]
        s2 == set_blink_dots(set_blink_all(set_freeze(s1, 0), 0), 1)
    IN  [s2 EXCEPT !.glitch_mode = GLITCH_MODE_OFF,
                   !.time_dilation_factor = 1,
                   !.current_time = replace_second(s2.current_time, 0),
                   !.x_positions = <<>>,
                   !.x_color = s2.text_color]

\* duration is in ticks.
set_brightness(st, target, duration) ==
    LET s1 == [st EXCEPT
                 !.last_brightness = st.brightness,
                 !.target_brightness =
                     FMax(FMin(FInt(target), FInt(FULL_BRIGHTNESS)), FInt(0))]
    IN  IF duration = 0 THEN [s1 EXCEPT !.brightness = FInt(target)]
        ELSE [s1 EXCEPT !.fade_elapsed = 0, !.fade_time = duration]

set_fadesnap(st, hour, minute, duration, clear_x) ==
    LET s1 == [st EXCEPT !.fade_snap_next_brightness = st.brightness]
    IN  IF ~ValidHM(hour, minute) THEN Raise(s1)
        ELSE [set_brightness(
                  [s1 EXCEPT !.fade_snap_time =
                       replace(s1.current_time, hour, minute, 0)],
                  0, duration)
              EXCEPT !.fade_snap_clear_x = clear_x, !.freeze_time = NoTime]

set_time_dilation(st, factor) == [st EXCEPT !.time_dilation_factor = factor]

set_increment_time(st, minutes) ==
    [st EXCEPT !.current_time =
        replace_second(AddTicks(st.current_time, minutes * Seconds * Res), 0)]

\* now is datetime.now().
set_timenow(st, reset_dilation, now) ==
    [st EXCEPT !.time_dilation_factor = IF reset_dilation THEN 1 ELSE @,
               !.current_time = now]

set_display_text(st, text) ==
    [st EXCEPT !.text_scroll_offset = IF text # st.scrolling_text THEN 0 ELSE @,
               !.scrolling_text = text]

\* ip is the ip_address property.
set_showip(st, enabled, ip) ==
    set_display_text(st, IF enabled = 0 THEN <<>> ELSE ip)

\* ------------------------------------------------------------- the state
\* clock is the XClock object, matrix the call the last iteration of the loop
\* made on the device sink ("none" when it made none),
\* running whether the render loop is alive.  The others record history:
\* cmd the last command osc_recv handled, ncmd how many it has handled, pre
\* the object as that command found it, since the real time (ticks, capped at
\* SinceCap) rendered after it, snap_at the value of since at the frame in
\* which the pending snap fired, frz the time on display when the clock was
\* frozen, xtrk the X overlay started by the last start_x_glitch.
VARIABLES clock, matrix, running, frames, cmd, ncmd, pre, since, snap_at, frz,
          xtrk

vars ==
    <<clock, matrix, running, frames, cmd, ncmd, pre, since, snap_at, frz, xtrk>>

StartTimes == {5}
SinceCap == 2 * Res + MaxReal + 1
\* What a command found: the fields the properties below compare with.
PreOf(st) ==
    [brightness |-> st.brightness, snap_pending |-> st.fade_snap_time # NoTime,
     x_positions |-> st.x_positions, x_glitch_mode |-> st.x_glitch_mode,
     glitch_mode |-> st.glitch_mode, freeze_time |-> st.freeze_time,
     current_time |-> st.current_time]

NoTrack == [on |-> FALSE, pos |-> <<>>, n |-> 0, f |-> 0, steps |-> 0,
            prev_ok |-> TRUE]

Init ==
    /\ clock \in {XClock(t) : t \in StartTimes}
    /\ matrix = "none"
    /\ running = TRUE
    /\ frames = 0
    /\ cmd = [name |-> "", args |-> <<>>, rejected |-> FALSE]
    /\ ncmd = 0
    /\ pre = PreOf(clock)
    /\ since = 0
    /\ snap_at = -1
    /\ frz = NoTime
    /\ xtrk = NoTrack

\* The X overlay record after a frame that ended in state st.
TrackX(st) ==
    LET wiped == st.ev.snapped /\ st.fade_snap_clear_x
    IN  IF st.ev.x_start
        THEN [on |-> ~wiped, pos |-> st.ev.x_new, n |-> st.x_glitch_number,
              f |-> st.x_glitch_frames, steps |-> 0,
              prev_ok |-> xtrk.on =>
                  \/ xtrk.steps >= xtrk.f
                  \/ xtrk.steps + 1 = xtrk.f /\ st.ev.x_cleared]
        ELSE IF ~xtrk.on \/ wiped \/ xtrk.steps >= xtrk.f THEN NoTrack
        ELSE IF st.ev.x_ran THEN [xtrk EXCEPT !.steps = @ + 1]
        ELSE xtrk

\* One iteration of async_run's loop: render(), then SetImage and SwapOnVSync,
\* or Clear when render raised Cleared; any other exception ends the loop.
Frame ==
    /\ running
    /\ \E real \in 1..MaxReal : \E st \in render(clock, real) :
         /\ clock' = st
         /\ matrix' = IF st.exc = "" THEN "SetImage"
                      ELSE IF st.exc = "Cleared" THEN "Clear" ELSE "none"
         /\ running' = (st.exc # "Error")
         /\ since' = IF since + real > SinceCap THEN SinceCap ELSE since + real
         /\ snap_at' = IF st.ev.snapped THEN since + real ELSE snap_at
         /\ xtrk' = TrackX(st)
    /\ frames' = 1 - frames
    /\ UNCHANGED <<cmd, ncmd, pre, frz>>

\* osc_recv: st is what the setter left of Self; an exception is logged.
Self == [clock EXCEPT !.exc = ""]

\* The dispatcher, taking commands while fewer than limit have been handled.
osc_recv_within(limit, name, args, st, sets_time) ==
    /\ running
    /\ ncmd < limit
    /\ clock' = [st EXCEPT !.exc = clock.exc]
    /\ cmd' = [name |-> name, args |-> args, rejected |-> st.exc = "Error"]
    /\ ncmd' = ncmd + 1
    /\ pre' = PreOf(clock)
    /\ since' = 0
    /\ snap_at' = -1
    /\ xtrk' = NoTrack
    /\ frz' = IF sets_time THEN NoTime
              ELSE IF name = "set_freeze" /\ args[1] # 0
                      /\ clock.freeze_time = NoTime
              THEN DisplayedTime(clock)
              ELSE frz
    /\ UNCHANGED <<matrix, running, frames>>

osc_recv(name, args, st, sets_time) ==
    osc_recv_within(MaxCmds, name, args, st, sets_time)

\* The arguments the commands are tried with.
Targets == {40, 150}
Durations == {0, 2 * Res}
HourArgs == {1, Hours}
MinuteArgs == {1}
PositionArgs ==
    {<<"X", "0", "0", "X">>, <<"X", "X", "X">>, <<"0", "X", "0", "0", "X">>}
ColorArgs(positions) == IF Len(positions) = 3 THEN {"red"} ELSE {"None"}
FreqArgs == {0, 100}
RandomXArgs == {<<1, 1>>}
SingleXArgs == {<<2, 2>>, <<4, 3>>}

Brightness ==
    \E target \in Targets, duration \in Durations :
        osc_recv("set_brightness", <<target, duration>>,
                 set_brightness(Self, target, duration), FALSE)

Fadesnap ==
    \E hour \in HourArgs, minute \in MinuteArgs, duration \in {0, Res},
       clear_x \in {TRUE} :
        osc_recv("set_fadesnap", <<hour, minute, duration, clear_x>>,
                 set_fadesnap(Self, hour, minute, duration, clear_x), TRUE)

XPositions ==
    \E positions \in PositionArgs : \E color \in ColorArgs(positions) :
        osc_recv("set_x_positions", <<positions, color>>,
                 set_x_positions(Self, positions, color), FALSE)

RandomXGlitch ==
    \E freq \in FreqArgs, a \in RandomXArgs :
        osc_recv("set_random_x_glitch", <<freq, a[1], a[2]>>,
                 set_random_x_glitch(Self, freq, a[1], a[2], "None"), FALSE)

SingleXGlitch ==
    \E a \in SingleXArgs :
        osc_recv("set_single_x_glitch", <<a[1], a[2]>>,
                 set_single_x_glitch(Self, a[1], a[2], "None"), FALSE)

RandomGlitch ==
    \E freq \in FreqArgs \cup {-1} :
        osc_recv("set_random_glitch", <<freq, 4>>,
                 set_random_glitch(Self, freq, 4), FALSE)

Freeze ==
    \E enabled \in {0, 1} :
        osc_recv("set_freeze", <<enabled>>, set_freeze(Self, enabled), FALSE)

Time ==
    \E hour \in HourArgs, minute \in MinuteArgs :
        osc_recv("set_time", <<hour, minute>>,
                 set_time(Self, hour, minute), TRUE)

TimeDilation ==
    \E factor \in {-1, 0, 1, 3} :
        osc_recv("set_time_dilation", <<factor>>,
                 set_time_dilation(Self, factor), FALSE)

Normal == osc_recv("set_normal", <<>>, set_normal(Self), TRUE)

\* Colour tokens: a name, a token that is neither a name nor hex, and "".
ColorTokens == {"red", "zzz", ""}
\* The intensities make_glitch draws nothing with, or cannot draw with.
IntensityArgs == {0, -1}
\* datetime.now() when set_timenow is called.
NowTimes == {3, 10}
TextArgs == {<<"h">>, <<>>}

Color ==
    \E color \in ColorTokens :
        osc_recv("set_color", <<color>>, set_color(Self, color), FALSE)

Bg ==
    \E color \in ColorTokens :
        osc_recv("set_bg", <<color>>, set_bg(Self, color), FALSE)

XColor ==
    \E color \in ColorTokens :
        osc_recv("set_x_color", <<color>>, set_x_color(Self, color), FALSE)

GlitchIntensity ==
    \E freq \in {-1, 100}, intensity \in IntensityArgs :
        osc_recv("set_random_glitch", <<freq, intensity>>,
                 set_random_glitch(Self, freq, intensity), FALSE)

GlitchTo ==
    \E hour \in HourArgs, minute \in MinuteArgs :
        osc_recv("set_glitch_to", <<hour, minute, 2>>,
                 set_glitch_to(Self, hour, minute, 2), TRUE)

BlinkAll ==
    \E enabled \in {0, 1} :
        osc_recv("set_blink_all", <<enabled>>,
                 set_blink_all(Self, enabled), FALSE)

Timenow ==
    \E reset_dilation \in BOOLEAN, now \in NowTimes :
        osc_recv("set_timenow", <<reset_dilation>>,
                 set_timenow(Self, reset_dilation, now), TRUE)

IncrementTime ==
    osc_recv("set_increment_time", <<1>>, set_increment_time(Self, 1), TRUE)

DisplayText ==
    \E text \in TextArgs :
        osc_recv("set_display_text", <<text>>,
                 set_display_text(Self, text), FALSE)

\* Frame counts for set_glitch_to: none, some, and a negative number.
FrameArgs == {0, 2, -1}

GlitchToFrames ==
    \E hour \in HourArgs, minute \in MinuteArgs, n \in FrameArgs :
        osc_recv("set_glitch_to", <<hour, minute, n>>,
                 set_glitch_to(Self, hour, minute, n), TRUE)

\* Fade durations in ticks: two seconds, and a negative number of seconds.
FadeArgs == {2 * Res, -Res}

BrightnessFade ==
    \E target \in Targets, duration \in FadeArgs :
        osc_recv("set_brightness", <<target, duration>>,
                 set_brightness(Self, target, duration), FALSE)

\* set_random_x_glitch with overlays that last: the frequency the greatest
\* draw still meets, and overlays of one X for two frames and for none.
HoldFreqArgs == {100, RAND_MAX}
HoldXArgs == {<<1, 2>>, <<1, 0>>}

RandomXHold ==
    \E freq \in HoldFreqArgs, a \in HoldXArgs :
        osc_recv("set_random_x_glitch", <<freq, a[1], a[2]>>,
                 set_random_x_glitch(Self, freq, a[1], a[2], "None"), FALSE)

\* The blink commands, in runs of up to MaxBlinkCmds commands.
BlinkDotsSeq ==
    \E enabled \in {0, 1} :
        osc_recv_within(MaxBlinkCmds, "set_blink_dots", <<enabled>>,
                        set_blink_dots(Self, enabled), FALSE)

BlinkAllSeq ==
    \E enabled \in {0, 1} :
        osc_recv_within(MaxBlinkCmds, "set_blink_all", <<enabled>>,
                        set_blink_all(Self, enabled), FALSE)

NormalSeq ==
    osc_recv_within(MaxBlinkCmds, "set_normal", <<>>, set_normal(Self), TRUE)

\* The X glitch commands with frame counts of none, some, and a negative
\* number.
SingleXFrames ==
    \E frames_ \in FrameArgs :
        osc_recv("set_single_x_glitch", <<1, frames_>>,
                 set_single_x_glitch(Self, 1, frames_, "None"), FALSE)

RandomXFrames ==
    \E freq \in HoldFreqArgs, frames_ \in FrameArgs :
        osc_recv("set_random_x_glitch", <<freq, 1, frames_>>,
                 set_random_x_glitch(Self, freq, 1, frames_, "None"), FALSE)

\* A name with no set_ method: getattr raises AttributeError.
Unknown == osc_recv("bogus", <<>>, Raise(Self), FALSE)

\* ------------------------------------------------------- specifications
\* The fade controller and what a snap touches.
NextFade == Frame \/ Brightness \/ Fadesnap \/ XPositions
SpecFade == Init /\ [][NextFade]_vars

\* async_run's loop goes round again while running holds: frames is the
\* parity of its iteration count, which only Frame changes.
Loop == running /\ frames' = 1 - frames

\* The same, with the render loop running for ever.
FairFade == SpecFade /\ WF_frames(Loop)

\* The X overlay and visual glitch generators.
Early == since <= MaxGap

NextGlitch == Frame \/ (Early /\ RandomXGlitch) \/ (Early /\ RandomGlitch)
SpecGlitch == Init /\ [][NextGlitch]_vars

\* The X overlay and its commands.
NextX ==
    \/ Frame \/ (Early /\ XPositions) \/ (Early /\ RandomXGlitch)
    \/ (Early /\ SingleXGlitch)
SpecX == Init /\ [][NextX]_vars

\* The time cursor.
NextTime == Frame \/ Freeze \/ Time \/ TimeDilation \/ Normal
SpecTime == Init /\ [][NextTime]_vars

\* set_normal after the commands it undoes.
NextNormal ==
    \/ Frame \/ Normal \/ (Early /\ Freeze) \/ (Early /\ TimeDilation)
    \/ (Early /\ RandomGlitch) \/ (Early /\ XPositions)
    \/ (Early /\ SingleXGlitch) \/ (Early /\ BlinkAll)
SpecNormal == Init /\ [][NextNormal]_vars

\* Commands the dispatcher or the colour resolver cannot apply.
NextInput ==
    \/ Frame \/ (Early /\ Color) \/ (Early /\ Bg) \/ (Early /\ XColor)
    \/ (Early /\ Unknown) \/ (Early /\ Fadesnap) \/ (Early /\ Time)
    \/ (Early /\ GlitchTo)
SpecInput == Init /\ [][NextInput]_vars

\* What one frame draws and what it hands to the device sink.
NextRender ==
    \/ Frame \/ (Early /\ DisplayText) \/ (Early /\ XPositions)
    \/ (Early /\ GlitchIntensity) \/ (Early /\ BlinkAll)
    \/ (Early /\ Fadesnap) \/ (Early /\ GlitchTo)
SpecRender == Init /\ [][NextRender]_vars

\* The frozen display and the commands that move the time cursor.
NextFreeze ==
    \/ Frame \/ Freeze \/ TimeDilation \/ Timenow \/ IncrementTime \/ Time
    \/ GlitchTo
SpecFreeze == Init /\ [][NextFreeze]_vars

\* The visual glitch generator over drawn, blank and dark frames.
NextVisual ==
    \/ Frame \/ (Early /\ RandomGlitch) \/ (Early /\ GlitchIntensity)
    \/ (Early /\ BlinkAll) \/ (Early /\ Fadesnap) \/ (Early /\ DisplayText)
SpecVisual == Init /\ [][NextVisual]_vars

\* The single-shot X glitch, with frames that skip the X state machine.
NextSingle ==
    \/ Frame \/ (Early /\ SingleXGlitch) \/ (Early /\ RandomXGlitch)
    \/ (Early /\ Fadesnap) \/ (Early /\ Brightness)
SpecSingle == Init /\ [][NextSingle]_vars

\* The numeral glitch; its countdown is followed while StepFloor holds.
StepFloor == clock.numbers_glitch_step > -MaxBelow

NextNumbers ==
    \/ (StepFloor /\ Frame) \/ (Early /\ GlitchToFrames)
    \/ (Early /\ Fadesnap) \/ (Early /\ DisplayText) \/ (Early /\ Freeze)
SpecNumbers == Init /\ [][NextNumbers]_vars

\* The compound commands between frames.
NextAtomic ==
    \/ Frame \/ (Early /\ Normal) \/ (Early /\ Fadesnap) \/ (Early /\ GlitchTo)
    \/ (Early /\ RandomXGlitch) \/ (Early /\ SingleXGlitch)
SpecAtomic == Init /\ [][NextAtomic]_vars

\* Fades of any duration; one with fade_time < 0 is followed while RunFloor
\* holds.
RunFloor == clock.fade_time > 0 \/ clock.fade_elapsed < MaxRun

NextFadeAny == (RunFloor /\ Frame) \/ BrightnessFade \/ Brightness
SpecFadeAny == Init /\ [][NextFadeAny]_vars

\* The same, with the render loop running for ever.
FairFadeAny == SpecFadeAny /\ WF_frames(Loop)

\* Fades under time dilation.
NextDilate ==
    \/ Frame \/ (Early /\ Brightness) \/ (Early /\ Fadesnap)
    \/ (Early /\ TimeDilation) \/ (Early /\ BlinkAll)
SpecDilate == Init /\ [][NextDilate]_vars

\* The tick, over drawn, blank and dark frames.
NextTick ==
    \/ Frame \/ (Early /\ TimeDilation) \/ (Early /\ BlinkAll)
    \/ (Early /\ Fadesnap) \/ (Early /\ Freeze)
SpecTick == Init /\ [][NextTick]_vars

\* The probabilistic X mode with overlays of several frames.
NextRoll ==
    \/ Frame \/ (Early /\ RandomXHold) \/ (Early /\ XPositions)
    \/ (Early /\ Fadesnap)
SpecRoll == Init /\ [][NextRoll]_vars

\* What the digit slots show: time, numeral glitch and X overlay together.
NextSlots ==
    \/ Frame \/ (Early /\ XPositions) \/ (Early /\ GlitchTo)
    \/ (Early /\ SingleXGlitch) \/ (Early /\ Freeze) \/ (Early /\ Fadesnap)
SpecSlots == Init /\ [][NextSlots]_vars

\* Frames blanked by blink_all while fades and countdowns are going on.
NextBlank ==
    \/ Frame \/ (Early /\ BlinkAll) \/ (Early /\ Fadesnap) \/ (Early /\ GlitchTo)
    \/ (Early /\ SingleXGlitch) \/ (Early /\ RandomGlitch)
    \/ (Early /\ DisplayText)
SpecBlank == Init /\ [][NextBlank]_vars

\* The blink switches in any order.
NextBlink == Frame \/ BlinkDotsSeq \/ BlinkAllSeq \/ NormalSeq
SpecBlink == Init /\ [][NextBlink]_vars

\* The X overlay generator with any frame count, the render loop running for
\* ever.
NextStuck == Frame \/ (Early /\ SingleXFrames) \/ (Early /\ RandomXFrames)
SpecStuck == Init /\ [][NextStuck]_vars
FairStuck == SpecStuck /\ WF_frames(Loop)

Next ==
    \/ Frame \/ Brightness \/ Fadesnap \/ XPositions \/ RandomXGlitch
    \/ SingleXGlitch \/ RandomGlitch \/ Freeze \/ Time \/ TimeDilation
    \/ Normal \/ Color \/ Bg \/ XColor \/ GlitchIntensity \/ GlitchTo
    \/ BlinkAll \/ Timenow \/ IncrementTime \/ DisplayText \/ Unknown
    \/ GlitchToFrames \/ BrightnessFade \/ RandomXHold
    \/ BlinkDotsSeq \/ BlinkAllSeq \/ NormalSeq
    \/ SingleXFrames \/ RandomXFrames
Spec == Init /\ [][Next]_vars

\* ------------------------------------------------------------ properties
Accepted(name) == cmd.name = name /\ ~cmd.rejected
Clamp(target) ==
    IF target > FULL_BRIGHTNESS THEN FInt(FULL_BRIGHTNESS)
    ELSE IF target < 0 THEN FInt(0) ELSE FInt(target)
\* last + (target - last) * t / duration
Interpolated(last, target, t, duration) ==
    FAdd(last, FMul(FSub(target, last), Frac(t, duration)))

\* C1: after set_brightness(target, duration) with duration > 0 and no further
\* command, brightness is last + (target - last) * t / duration while the real
\* time t since the call is below duration, and from then on it is the
\* target, which target_brightness still holds.
C1_FadeInterpolates ==
    (Accepted("set_brightness") /\ cmd.args[2] > 0) =>
        IF since < cmd.args[2]
        THEN clock.brightness =
                 Interpolated(pre.brightness, Clamp(cmd.args[1]), since,
                              cmd.args[2])
        ELSE /\ clock.brightness = Clamp(cmd.args[1])
             /\ clock.target_brightness = Clamp(cmd.args[1])

\* The same when no snap was pending at the call.
FadeInterpolatesWithoutSnap == pre.snap_pending \/ C1_FadeInterpolates

\* C2: set_fadesnap(h, m, duration = 1 s, clear_x = true) from brightness 100:
\* brightness falls linearly to 0 over the second with the snap pending; the
\* snap fires in the first frame with t >= duration, and that frame leaves
\* brightness 0, the displayed time h:m:00, no X position, no pending snap and
\* target_brightness 100.
C2_Fadesnap ==
    (/\ Accepted("set_fadesnap")
     /\ pre.brightness = FInt(FULL_BRIGHTNESS)
     /\ cmd.args[3] = Res
     /\ cmd.args[4]) =>
        /\ since < Res =>
             /\ clock.brightness =
                    Interpolated(FInt(FULL_BRIGHTNESS), FInt(0), since, Res)
             /\ clock.target_brightness = FInt(0)
             /\ clock.fade_snap_time # NoTime
        /\ since >= Res =>
             /\ clock.fade_snap_time = NoTime
             /\ snap_at >= Res
             /\ clock.target_brightness = FInt(FULL_BRIGHTNESS)
        /\ (since > 0 /\ clock.ev.snapped) =>
             /\ since - clock.real_elapsed < Res
             /\ clock.brightness = FInt(0)
             /\ HourOf(DisplayedTime(clock)) = cmd.args[1]
             /\ MinuteOf(DisplayedTime(clock)) = cmd.args[2]
             /\ SecondOf(DisplayedTime(clock)) = 0
             /\ clock.x_positions = <<>>
             /\ clock.target_brightness = FInt(FULL_BRIGHTNESS)

C2_Witness ==
    /\ Accepted("set_fadesnap")
    /\ pre.brightness = FInt(FULL_BRIGHTNESS)
    /\ cmd.args[3] = Res
    /\ cmd.args[4]
    /\ pre.x_positions # <<>>
    /\ since > 0
    /\ clock.ev.snapped
    /\ HourOf(pre.current_time) # cmd.args[1]

\* A set_fadesnap has just been accepted, at a brightness in [0, 100].
FadesnapCalled ==
    /\ Accepted("set_fadesnap")
    /\ since = 0
    /\ FLe(FInt(0), pre.brightness)
    /\ FLe(pre.brightness, FInt(FULL_BRIGHTNESS))

\* The display shows the time it asked for at the brightness it found.
FadesnapReturned ==
    /\ Accepted("set_fadesnap")
    /\ HourOf(DisplayedTime(clock)) = cmd.args[1]
    /\ MinuteOf(DisplayedTime(clock)) = cmd.args[2]
    /\ clock.brightness = pre.brightness
    /\ clock.fade_snap_time = NoTime

\* C3: after set_fadesnap from a brightness in [0, 100], with frames going on
\* and no further command, eventually the display shows h:m at the brightness
\* held before the call.
C3_FadesnapReturns ==
    \A k \in 1..MaxCmds :
        (FadesnapCalled /\ ncmd = k) ~> (FadesnapReturned \/ ncmd > k)

\* C4: after the snap, brightness rises from 0 to the brightness held before
\* set_fadesnap by linear interpolation over the same duration.
C4_SecondLegInterpolates ==
    (/\ Accepted("set_fadesnap") /\ cmd.args[3] > 0
     /\ snap_at >= 0 /\ since < SinceCap
     /\ since - snap_at < cmd.args[3]) =>
        clock.brightness =
            Interpolated(FInt(0), pre.brightness, since - snap_at, cmd.args[3])

\* C5: brightness is in [0, 100] in every reachable state.
C5_BrightnessInRange ==
    FLe(FInt(0), clock.brightness)
        /\ FLe(clock.brightness, FInt(FULL_BRIGHTNESS))

\* C6: set_brightness(target, 0) leaves brightness and target_brightness at
\* the clamped target, and no later frame changes brightness.
C6_ImmediateBrightness ==
    (Accepted("set_brightness") /\ cmd.args[2] = 0) =>
        /\ clock.brightness = Clamp(cmd.args[1])
        /\ clock.target_brightness = Clamp(cmd.args[1])

\* The same for a target inside [0, 100].
ImmediateBrightnessInRange ==
    (Accepted("set_brightness") /\ cmd.args[1] > FULL_BRIGHTNESS)
        \/ C6_ImmediateBrightness

\* C7: set_random_glitch and set_random_x_glitch with freq = 0 switch their
\* mode off, and no later frame rolls, starts a burst or starts an X glitch
\* until another command.
C7_ZeroFreqIsOff ==
    /\ (Accepted("set_random_glitch") /\ cmd.args[1] = 0) =>
          /\ clock.glitch_mode = GLITCH_MODE_OFF
          /\ since > 0 => ~clock.ev.g_roll /\ ~clock.ev.g_burst
    /\ (Accepted("set_random_x_glitch") /\ cmd.args[1] = 0) =>
          /\ clock.x_glitch_mode = GLITCH_MODE_OFF
          /\ since > 0 => ~clock.ev.x_roll /\ ~clock.ev.x_start

C7_Witness ==
    /\ Accepted("set_random_x_glitch")
    /\ cmd.args[1] = 0
    /\ pre.x_glitch_mode = GLITCH_MODE_RANDOM
    /\ since > 0
    /\ clock.ev.x_ran

\* C8: set_x_positions with a string whose length is not 4 changes none of
\* x_positions, x_glitch_mode, x_glitch_step and x_color.
C8_BadLengthIgnored ==
    [][(/\ ncmd' = ncmd + 1
        /\ cmd'.name = "set_x_positions"
        /\ Len(cmd'.args[1]) # 4) =>
           /\ clock'.x_positions = clock.x_positions
           /\ clock'.x_glitch_mode = clock.x_glitch_mode
           /\ clock'.x_glitch_step = clock.x_glitch_step
           /\ clock'.x_color = clock.x_color]_vars

C8_Witness ==
    /\ cmd.name = "set_x_positions"
    /\ Len(cmd.args[1]) # 4
    /\ since = 0
    /\ pre.x_positions # <<>>
    /\ clock.x_glitch_step > 0

\* C9: a trigger with number n in 1..4 and frames f >= 1 sets n distinct slot
\* indices and x_glitch_step = f; they stay for fewer than f later steps of
\* the X state machine and are cleared by the f-th.
C9_OverlayLastsFrames ==
    (xtrk.on /\ xtrk.n \in 1..4 /\ xtrk.f >= 1) =>
        /\ Len(xtrk.pos) = xtrk.n
        /\ \A i \in 1..Len(xtrk.pos) : xtrk.pos[i] \in Slots
        /\ \A i, j \in 1..Len(xtrk.pos) : i # j => xtrk.pos[i] # xtrk.pos[j]
        /\ xtrk.prev_ok
        /\ xtrk.steps < xtrk.f =>
             /\ clock.x_positions = xtrk.pos
             /\ clock.x_glitch_step = xtrk.f - xtrk.steps
        /\ xtrk.steps >= xtrk.f =>
             /\ xtrk.steps = xtrk.f
             /\ clock.x_positions = <<>>

C9_Witness ==
    /\ xtrk.on
    /\ xtrk.n = 2
    /\ xtrk.f = 2
    /\ xtrk.steps = 2
    /\ clock.x_positions = <<>>

\* C10: set_freeze(1) and later set_freeze(0), with frames but no time-setting
\* command between them, leave on display the time that was displayed when
\* the clock was frozen, and that time is displayed all the while.
C10_FreezeRoundTrip ==
    /\ (clock.freeze_time # NoTime /\ frz # NoTime) =>
           DisplayedTime(clock) = frz
    /\ (/\ Accepted("set_freeze") /\ cmd.args[1] = 0 /\ since = 0
        /\ pre.freeze_time # NoTime /\ frz # NoTime) =>
           /\ clock.freeze_time = NoTime
           /\ DisplayedTime(clock) = frz

C10_Witness ==
    /\ Accepted("set_freeze")
    /\ cmd.args[1] = 0
    /\ since = 0
    /\ pre.freeze_time # NoTime
    /\ frz # NoTime
    /\ pre.current_time # frz
    /\ clock.freeze_time = NoTime

\* C11: immediately after set_normal, from every state: time_dilation_factor
\* is 1, blink_dots is on, blink_all is off, both glitch modes are off,
\* x_positions is empty, x_color is text_color, the clock is not frozen and
\* the seconds of current_time are 0.
C11_NormalResets ==
    (Accepted("set_normal") /\ since = 0) =>
        /\ clock.time_dilation_factor = 1
        /\ clock.blink_dots
        /\ ~clock.blink_all
        /\ clock.x_glitch_mode = GLITCH_MODE_OFF
        /\ clock.x_positions = <<>>
        /\ clock.glitch_mode = GLITCH_MODE_OFF
        /\ clock.x_color = clock.text_color
        /\ clock.freeze_time = NoTime
        /\ SecondOf(clock.current_time) = 0

C11_Witness ==
    /\ Accepted("set_normal")
    /\ since = 0
    /\ pre.freeze_time # NoTime
    /\ SecondOf(pre.current_time) # 0
    /\ clock.freeze_time = NoTime

\* The frame buffer of the last frame shows an X glyph.
DrewX == \E i \in 1..4 : clock.image.slots[i].glyph = "X"

\* C12: after set_normal, until another command, no frame draws an X glyph
\* and no frame applies the visual glitch transform.
C12_NormalStopsGlitches ==
    (Accepted("set_normal") /\ since > 0) =>
        ~DrewX /\ clock.image.glitches = 0

\* The X half of it.
NormalStopsX == (Accepted("set_normal") /\ since > 0) => ~DrewX

\* C13: a command the dispatcher rejects (an unknown name, or a setter that
\* raises) leaves every field of the object as it was.
C13_RejectedChangesNothing ==
    [][(ncmd' = ncmd + 1 /\ cmd'.rejected) => clock' = clock]_vars

\* The same for every rejected command but set_fadesnap.
RejectedChangesNothingButFadesnap ==
    [][(ncmd' = ncmd + 1 /\ cmd'.rejected /\ cmd'.name # "set_fadesnap")
          => clock' = clock]_vars

\* C14: set_color, set_x_color and set_bg with a token that is neither a
\* colour name nor hex leave text_color, x_color and background as they were.
C14_BadColorKeepsColor ==
    [][(/\ ncmd' = ncmd + 1
        /\ cmd'.name \in {"set_color", "set_x_color", "set_bg"}
        /\ color_to_rgb(cmd'.args[1]) = "None") =>
           /\ clock'.text_color = clock.text_color
           /\ clock'.x_color = clock.x_color
           /\ clock'.background = clock.background]_vars

\* The same for set_x_color alone.
BadXColorKeepsColor ==
    [][(/\ ncmd' = ncmd + 1
        /\ cmd'.name = "set_x_color"
        /\ color_to_rgb(cmd'.args[1]) = "None") =>
           clock'.x_color = clock.x_color]_vars

\* C15: a frame rendered while scrolling_text is non-empty holds the text
\* alone: no time digit, no separator, no numeral-glitch digit, no X glyph,
\* and no visual glitch transform.
C15_TextReplacesClock ==
    clock.image.text =>
        /\ ~clock.ev.drew_time
        /\ ~clock.image.colon
        /\ ~clock.ev.n_drew
        /\ \A i \in 1..4 : clock.image.slots[i] = NoGlyph
        /\ clock.image.glitches = 0

\* update_clock's half of it: the text replaces the time and the separator.
TextReplacesTime ==
    clock.image.text => ~clock.ev.drew_time /\ ~clock.image.colon

\* The last iteration cleared the sink exactly when it judged the frame
\* blank, and pushed the frame buffer otherwise.
OneSinkCall ==
    /\ matrix \in {"SetImage", "Clear"}
    /\ matrix = "Clear" <=> (clock.ev.dark \/ ~clock.show_numbers)

\* C16: every iteration of the render loop makes exactly one call on the
\* device sink: a clear if and only if the frame was judged blank
\* (brightness == 0 == target_brightness after the tick, or show_numbers
\* false at the end), otherwise one push of the frame buffer.
C16_OneSinkCallPerFrame == since > 0 => OneSinkCall

\* The same for the iterations whose render raised nothing but Cleared.
OneSinkCallUnlessError == (since > 0 /\ clock.exc # "Error") => OneSinkCall

\* C17: no render ends with an exception other than Cleared, whatever
\* numeric arguments the accepted commands had.
C17_RenderNeverFails == clock.exc # "Error" /\ running

\* render fails on a negative glitch_intensity only.
RenderFailsOnIntensityOnly ==
    (clock.exc = "Error" \/ ~running) => clock.glitch_intensity < 0

\* No fade is pending with fade_time = 0, and no frame fails in step_fade.
NoZeroFadeTime ==
    /\ clock.target_brightness # clock.brightness => clock.fade_time # 0
    /\ clock.exc # "Error"

\* C18: a zero fade duration is instantaneous completion, never a division
\* fault: no fade is pending with fade_time = 0, and set_brightness with
\* duration 0 leaves brightness at the target with no fade pending.
C18_ZeroDurationIsInstant ==
    /\ NoZeroFadeTime
    /\ (Accepted("set_brightness") /\ cmd.args[2] = 0 /\ since = 0) =>
          clock.brightness = clock.target_brightness

\* C19: while freeze_time is set the status snapshot reports it, with
\* frozen = true; every frame leaves it as it is, draws it when it draws the
\* time, and advances current_time by the dilated elapsed time; and
\* set_time_dilation, set_timenow and set_increment_time leave it as it is.
C19_FrozenShowsFreezeTime ==
    [][clock.freeze_time # NoTime =>
         /\ state(clock).time = [hour |-> HourOf(clock.freeze_time),
                                 minute |-> MinuteOf(clock.freeze_time),
                                 frozen |-> TRUE]
         /\ frames' # frames =>
              /\ clock'.freeze_time = clock.freeze_time
              /\ clock'.ev.drew_time =>
                   clock'.ev.time_disp = strftime_HHMM(clock.freeze_time)
              /\ ~clock'.ev.snapped =>
                   clock'.current_time =
                       AddTicks(clock.current_time,
                                clock'.real_elapsed * clock.time_dilation_factor)
         /\ (/\ ncmd' = ncmd + 1
             /\ cmd'.name \in {"set_time_dilation", "set_timenow",
                               "set_increment_time"}) =>
              clock'.freeze_time = clock.freeze_time]_vars

C19_Witness ==
    /\ clock.freeze_time # NoTime
    /\ cmd.name = "set_timenow"
    /\ since > 0
    /\ clock.ev.drew_time
    /\ clock.ev.time_disp # strftime_HHMM(clock.current_time)

\* C20: right after set_time or set_glitch_to with a valid hour and minute,
\* from a frozen state or not, the clock is not frozen and the displayed time
\* is hour:minute:00.
C20_SetTimeShowsTime ==
    ((Accepted("set_time") \/ Accepted("set_glitch_to")) /\ since = 0) =>
        /\ clock.freeze_time = NoTime
        /\ state(clock).time = [hour |-> cmd.args[1], minute |-> cmd.args[2],
                                frozen |-> FALSE]
        /\ SecondOf(DisplayedTime(clock)) = 0

C20_Witness ==
    /\ Accepted("set_glitch_to")
    /\ since = 0
    /\ pre.freeze_time # NoTime
    /\ HourOf(pre.freeze_time) # cmd.args[1]
    /\ clock.numbers_glitch_step > 0

\* C21: set_random_glitch(freq, intensity) leaves the visual glitch mode
\* continuous for freq = -1, off for freq = 0 and probabilistic with
\* glitch_freq = freq for every other freq; and in continuous mode every frame
\* that is drawn (not dark, and completed by render) has had the glitch
\* transform applied.
C21_FreqSelectsMode ==
    /\ (Accepted("set_random_glitch") /\ since = 0) =>
          /\ clock.glitch_intensity = cmd.args[2]
          /\ IF cmd.args[1] = -1 THEN clock.glitch_mode = GLITCH_MODE_ON
             ELSE IF cmd.args[1] = 0 THEN clock.glitch_mode = GLITCH_MODE_OFF
             ELSE /\ clock.glitch_mode = GLITCH_MODE_RANDOM
                  /\ clock.glitch_freq = cmd.args[1]
    /\ (/\ clock.glitch_mode = GLITCH_MODE_ON /\ since > 0
        /\ ~clock.ev.dark /\ clock.exc # "Error") =>
          /\ clock.image.glitches >= 1
          /\ ~clock.ev.g_roll

C21_Witness ==
    /\ Accepted("set_random_glitch")
    /\ cmd.args[1] = -1
    /\ pre.glitch_mode = GLITCH_MODE_RANDOM
    /\ since > Res
    /\ matrix = "SetImage"
    /\ clock.image.glitches = 1

\* C22: set_single_x_glitch leaves the single-shot mode on; the next frame in
\* which the X state machine runs starts one X glitch, with the number and
\* frames of the call, and leaves x_glitch_mode off; a frame in which it does
\* not run leaves the mode waiting; and from mode off no frame starts an X
\* glitch.
C22_SingleTriggersOnce ==
    [][/\ (ncmd' = ncmd + 1 /\ cmd'.name = "set_single_x_glitch") =>
            /\ clock'.x_glitch_mode = GLITCH_MODE_SINGLE
            /\ clock'.x_glitch_number = cmd'.args[1]
            /\ clock'.x_glitch_frames = cmd'.args[2]
       /\ (frames' # frames /\ clock.x_glitch_mode = GLITCH_MODE_SINGLE) =>
            IF clock'.ev.x_ran
            THEN /\ clock'.ev.x_start
                 /\ ~clock'.ev.x_roll
                 /\ clock'.x_glitch_mode = GLITCH_MODE_OFF
                 /\ clock'.x_glitch_step = clock.x_glitch_frames
                 /\ Len(clock'.ev.x_new) = clock.x_glitch_number
            ELSE /\ ~clock'.ev.x_start
                 /\ clock'.x_glitch_mode = GLITCH_MODE_SINGLE
       /\ (frames' # frames /\ clock.x_glitch_mode = GLITCH_MODE_OFF) =>
            /\ ~clock'.ev.x_start
            /\ clock'.x_glitch_mode = GLITCH_MODE_OFF]_vars

C22_Witness ==
    /\ Accepted("set_single_x_glitch")
    /\ pre.x_glitch_mode = GLITCH_MODE_RANDOM
    /\ since > MaxReal
    /\ xtrk.on
    /\ xtrk.steps >= 1
    /\ clock.ev.x_ran
    /\ ~clock.ev.x_start
    /\ clock.x_glitch_mode = GLITCH_MODE_OFF

\* One frame of the numeral countdown: a frame that reaches numbers_glitch
\* shows four random digits and takes one off
\* numbers_glitch_step, which stays at 0 or above, when the step was above 0;
\* when it was not, the frame leaves the step alone and the digits
\* update_clock drew stand.
CountdownFrame ==
    (frames' # frames /\ ~clock'.ev.dark) =>
        IF clock.numbers_glitch_step > 0
        THEN /\ clock'.ev.n_drew
             /\ clock'.numbers_glitch_step = clock.numbers_glitch_step - 1
             /\ clock'.numbers_glitch_step >= 0
        ELSE /\ ~clock'.ev.n_drew
             /\ clock'.numbers_glitch_step = clock.numbers_glitch_step

\* C23: set_glitch_to(hour, minute, frames) shows hour:minute at once and
\* leaves numbers_glitch_step = frames; from then on the numeral glitch is a
\* countdown: each drawn frame that starts with the step above 0 shows four
\* random digits and takes one off it, the step never goes below 0, and each
\* drawn frame that starts with the step not above 0 shows the time digits.
C23_NumeralCountdown ==
    [][/\ (/\ ncmd' = ncmd + 1 /\ cmd'.name = "set_glitch_to"
           /\ ~cmd'.rejected) =>
            /\ HourOf(DisplayedTime(clock')) = cmd'.args[1]
            /\ MinuteOf(DisplayedTime(clock')) = cmd'.args[2]
            /\ clock'.numbers_glitch_step = cmd'.args[3]
       /\ CountdownFrame]_vars

\* The same for the calls whose frames argument is not negative.
NumeralCountdownFromZeroUp ==
    [][/\ (/\ ncmd' = ncmd + 1 /\ cmd'.name = "set_glitch_to"
           /\ ~cmd'.rejected) =>
            /\ HourOf(DisplayedTime(clock')) = cmd'.args[1]
            /\ MinuteOf(DisplayedTime(clock')) = cmd'.args[2]
            /\ clock'.numbers_glitch_step = cmd'.args[3]
       /\ clock.numbers_glitch_step >= 0 => CountdownFrame]_vars

\* What an accepted compound command leaves for the next frame: every one of
\* its assignments.
CompoundApplied ==
    /\ cmd'.name = "set_random_x_glitch" =>
         IF cmd'.args[1] = 0
         THEN clock'.x_glitch_mode = GLITCH_MODE_OFF
         ELSE /\ clock'.x_glitch_mode = GLITCH_MODE_RANDOM
              /\ clock'.x_glitch_freq = cmd'.args[1]
              /\ clock'.x_glitch_number = cmd'.args[2]
              /\ clock'.x_glitch_frames = cmd'.args[3]
    /\ cmd'.name = "set_glitch_to" =>
         /\ clock'.current_time =
                replace(clock.current_time, cmd'.args[1], cmd'.args[2], 0)
         /\ clock'.freeze_time = NoTime
         /\ clock'.numbers_glitch_step = cmd'.args[3]
    /\ cmd'.name = "set_fadesnap" =>
         /\ clock'.fade_snap_next_brightness = clock.brightness
         /\ clock'.fade_snap_time =
                replace(clock.current_time, cmd'.args[1], cmd'.args[2], 0)
         /\ clock'.last_brightness = clock.brightness
         /\ clock'.target_brightness = FInt(0)
         /\ clock'.fade_snap_clear_x = cmd'.args[4]
         /\ clock'.freeze_time = NoTime
    /\ cmd'.name = "set_normal" =>
         /\ clock'.x_glitch_mode = GLITCH_MODE_OFF
         /\ clock'.glitch_mode = GLITCH_MODE_OFF
         /\ clock'.freeze_time = NoTime
         /\ ~clock'.blink_all /\ clock'.blink_dots
         /\ clock'.time_dilation_factor = 1
         /\ SecondOf(clock'.current_time) = 0
         /\ clock'.x_positions = <<>>
         /\ clock'.x_color = clock'.text_color

\* C24: the state a frame is rendered from holds each command either whole
\* or not at all: an accepted compound command (set_normal, set_fadesnap,
\* set_glitch_to, set_random_x_glitch) has made every one of its assignments,
\* a rejected command none, and no frame starts in the single-shot X mode on
\* account of set_random_x_glitch.
C24_CommandsAtomic ==
    [][/\ ncmd' = ncmd + 1 =>
            IF cmd'.rejected THEN clock' = clock ELSE CompoundApplied
       /\ (frames' # frames /\ cmd.name = "set_random_x_glitch") =>
            clock.x_glitch_mode # GLITCH_MODE_SINGLE]_vars

\* The same for the accepted commands alone.
AcceptedCommandsAtomic ==
    [][/\ (ncmd' = ncmd + 1 /\ ~cmd'.rejected) => CompoundApplied
       /\ (frames' # frames /\ cmd.name = "set_random_x_glitch") =>
            clock.x_glitch_mode # GLITCH_MODE_SINGLE]_vars

\* |a - b| for fractions.
Dist(a, b) == IF FLt(a, b) THEN FSub(b, a) ELSE FSub(a, b)
Between(x, a, b) == FLe(FMin(a, b), x) /\ FLe(x, FMax(a, b))

\* A frame of a fade started by set_brightness with a non-zero duration
\* leaves brightness between last_brightness and target_brightness, and no
\* further from the target than it was.
FadeFrame ==
    (Accepted("set_brightness") /\ cmd.args[2] # 0 /\ frames' # frames) =>
        /\ Between(clock'.brightness, clock.last_brightness,
                   clock.target_brightness)
        /\ FLe(Dist(clock'.brightness, clock.target_brightness),
               Dist(clock.brightness, clock.target_brightness))

FadeStarted == Accepted("set_brightness") /\ since = 0 /\ cmd.args[2] # 0
FadeDone == clock.brightness = clock.target_brightness

\* C25: in a fade started by set_brightness(target, duration) with a non-zero
\* duration, every frame leaves brightness between last_brightness and
\* target_brightness and no further from the target than before; and with
\* frames going on and no further command brightness eventually equals
\* target_brightness.
C25_FadeConverges ==
    /\ [][FadeFrame]_vars
    /\ \A k \in 1..MaxCmds :
          (FadeStarted /\ ncmd = k) ~> (FadeDone \/ ncmd > k)

\* The same for the durations above 0.
FadeConvergesForPositive ==
    /\ [][(Accepted("set_brightness") /\ cmd.args[2] < 0) \/ FadeFrame]_vars
    /\ \A k \in 1..MaxCmds :
          (FadeStarted /\ cmd.args[2] > 0 /\ ncmd = k)
              ~> (FadeDone \/ ncmd > k)

\* The time dilation factors a second run may have.
Factors == {-1, 0, 1, 3}

\* The states a run with other dilation factors may be in when this run is
\* in st: another factor, another time cursor, another blink phase.
Twins(st) ==
    {[st EXCEPT !.time_dilation_factor = d, !.current_time = t,
                !.blink_state = b,
                !.show_numbers = IF st.blink_all THEN b ELSE @]
     : d \in Factors, t \in 0..(DayTicks - 1), b \in BOOLEAN}

\* What the fade controller reads and writes.
FadeView(st) ==
    [brightness |-> st.brightness, fade_elapsed |-> st.fade_elapsed,
     target_brightness |-> st.target_brightness,
     last_brightness |-> st.last_brightness, fade_time |-> st.fade_time,
     snap_pending |-> st.fade_snap_time # NoTime,
     fade_snap_next_brightness |-> st.fade_snap_next_brightness]

\* The setter osc_recv dispatches to.
Redo(name, args, st) ==
    CASE name = "set_brightness" -> set_brightness(st, args[1], args[2])
      [] name = "set_fadesnap" ->
             set_fadesnap(st, args[1], args[2], args[3], args[4])
      [] name = "set_time_dilation" -> set_time_dilation(st, args[1])
      [] name = "set_blink_all" -> set_blink_all(st, args[1])

\* C26: fade progress depends on real elapsed time only.  Whatever the time
\* dilation factor, the time cursor and the blink phase of a second run are,
\* the same frame (the same real elapsed time) and the same command leave it
\* the same brightness, fade_elapsed and target_brightness, and the same
\* fade state, as they leave this run; so two runs that differ in
\* time_dilation_factor agree on them at every frame.
C26_FadeIgnoresDilation ==
    [][/\ frames' # frames =>
            \A tw \in Twins(clock) :
                \A st \in render(tw, clock'.real_elapsed) :
                    FadeView(st) = FadeView(clock')
       /\ ncmd' = ncmd + 1 =>
            \A tw \in Twins(clock) :
                FadeView(Redo(cmd'.name, cmd'.args, tw)) = FadeView(clock')
      ]_vars

C26_Witness ==
    /\ clock.time_dilation_factor = 3
    /\ since > 0
    /\ clock.ev.faded
    /\ clock.brightness # clock.target_brightness
    /\ clock.fade_snap_time # NoTime

\* C27: every frame, blank or not, moves current_time by real_elapsed *
\* time_dilation_factor (a frame in which the pending snap fires then sets it
\* to the snap time): not at all at factor 0, back by real_elapsed at factor
\* -1, forward by real_elapsed at factor 1.
C27_TickIsDilated ==
    [][(frames' # frames /\ ~clock'.ev.snapped) =>
         /\ clock'.real_elapsed >= 1
         /\ clock'.current_time =
                AddTicks(clock.current_time,
                         clock'.real_elapsed * clock.time_dilation_factor)
         /\ clock.time_dilation_factor = 0 =>
                clock'.current_time = clock.current_time
         /\ clock.time_dilation_factor = -1 =>
                AddTicks(clock'.current_time, clock'.real_elapsed)
                    = clock.current_time
         /\ clock.time_dilation_factor = 1 =>
                clock'.current_time =
                    AddTicks(clock.current_time, clock'.real_elapsed)]_vars

C27_Witness ==
    /\ Accepted("set_time_dilation")
    /\ cmd.args[1] = -1
    /\ since > 0
    /\ matrix = "Clear"
    /\ clock.ev.dark
    /\ clock.current_time # pre.current_time

\* The dilated elapsed time of the frame just rendered, and the time its tick
\* left in current_time.
Dilated == clock'.real_elapsed * clock.time_dilation_factor
Ticked == AddTicks(clock.current_time, Dilated)

\* C28: in a frame rendered while blink_dots or blink_all is on, blink_state
\* is the negation of its earlier value when the dilated elapsed time is above
\* 1 s in absolute value; otherwise it is true exactly when the sub-second
\* part of the displayed time (freeze_time when frozen, current_time
\* otherwise) is at least half a second.
C28_BlinkFollowsDisplayedTime ==
    [][(frames' # frames /\ (clock.blink_dots \/ clock.blink_all)) =>
         IF Abs(Dilated) > Res
         THEN clock'.blink_state = ~clock.blink_state
         ELSE clock'.blink_state =
                  (2 * SubOf(IF clock.freeze_time # NoTime
                             THEN clock.freeze_time ELSE Ticked) >= Res)]_vars

\* The same with current_time whether the clock is frozen or not.
BlinkFollowsCurrentTime ==
    [][(frames' # frames /\ (clock.blink_dots \/ clock.blink_all)) =>
         IF Abs(Dilated) > Res
         THEN clock'.blink_state = ~clock.blink_state
         ELSE clock'.blink_state = (2 * SubOf(Ticked) >= Res)]_vars

\* x_glitch_step after the countdown step of the frame just rendered.
StepAfter ==
    IF clock.x_glitch_step > 0 THEN clock.x_glitch_step - 1
    ELSE clock.x_glitch_step

\* C29: in probabilistic X mode, a frame in which the X state machine runs
\* rolls if and only if x_glitch_step is 0 after the frame's countdown step,
\* starts an X glitch if and only if it rolls and the draw, which is in
\* 0..10000, is <= x_glitch_freq, and starts none over an overlay whose
\* countdown is still above 0.
C29_RollsWhenIdle ==
    [][(/\ frames' # frames /\ clock.x_glitch_mode = GLITCH_MODE_RANDOM
        /\ clock'.ev.x_ran) =>
          /\ clock'.ev.x_roll <=> StepAfter = 0
          /\ clock'.ev.x_roll => clock'.ev.x_draw \in 0..RAND_MAX
          /\ clock'.ev.x_start <=>
                (clock'.ev.x_roll /\ clock'.ev.x_draw <= clock.x_glitch_freq)
          /\ clock'.ev.x_start => ~(StepAfter > 0)
          /\ clock'.x_glitch_mode = GLITCH_MODE_RANDOM]_vars

C29_Witness ==
    /\ clock.x_glitch_mode = GLITCH_MODE_RANDOM
    /\ since > 0
    /\ clock.ev.x_ran
    /\ ~clock.ev.x_roll
    /\ clock.x_glitch_step = 1
    /\ Len(clock.x_positions) = 1

\* x_positions holds slot indices, none of them twice.
XPositionsAreSlots ==
    /\ \A i \in 1..Len(clock.x_positions) : clock.x_positions[i] \in Slots
    /\ \A i, j \in 1..Len(clock.x_positions) :
          i # j => clock.x_positions[i] # clock.x_positions[j]

\* C30: in every reachable state x_positions is a duplicate-free subset of
\* the slot indices 0..3 with at most x_glitch_number members.
C30_XPositionsBounded ==
    XPositionsAreSlots /\ Len(clock.x_positions) <= clock.x_glitch_number

\* x_positions as the X state transition of the frame just rendered left it
\* (draw_x reads it before step_fade can clear it).
XAfter ==
    IF clock'.ev.x_start THEN clock'.ev.x_new
    ELSE IF clock'.ev.x_cleared THEN <<>>
    ELSE clock.x_positions

InSeq(x, seq) == \E k \in 1..Len(seq) : seq[k] = x

\* C31: in a frame drawn without scrolling text, slot i shows the X glyph in
\* x_color if i is in x_positions after the frame's X state transition;
\* otherwise a random digit if the numeral countdown was above 0 when the
\* frame started; otherwise the i-th character of the HHMM rendering of the
\* displayed time.
C31_SlotContents ==
    [][(/\ frames' # frames /\ ~clock'.ev.dark /\ clock'.exc # "Error"
        /\ clock.scrolling_text = <<>>) =>
          \A i \in Slots :
              IF InSeq(i, XAfter)
              THEN clock'.image.slots[i + 1] =
                       [glyph |-> "X", color |-> clock.x_color]
              ELSE IF clock.numbers_glitch_step > 0
              THEN /\ clock'.ev.n_drew
                   /\ clock'.image.slots[i + 1].glyph \in RandomDigits
              ELSE /\ ~clock'.ev.n_drew
                   /\ clock'.image.slots[i + 1].glyph =
                          strftime_HHMM(IF clock.freeze_time # NoTime
                                        THEN clock.freeze_time
                                        ELSE Ticked)[i + 1]]_vars

C31_Witness ==
    /\ since > 0
    /\ clock.ev.n_drew
    /\ clock.ev.x_start
    /\ Len(clock.ev.x_new) = 2
    /\ matrix = "SetImage"
    /\ \E i, j \in 1..4 : /\ clock.image.slots[i].glyph = "X"
                          /\ clock.image.slots[j].glyph = "7"

\* glitch_step after the countdown step of the frame just rendered.
GStepAfter ==
    IF clock.glitch_step > 0 THEN clock.glitch_step - 1 ELSE clock.glitch_step

\* C32: glitch_step is always in 0..7.  In a frame that reaches do_glitch: a
\* roll is made only in probabilistic mode with glitch_step at 0 after the
\* frame's countdown step; a roll whose draw is <= glitch_freq, and no other,
\* sets glitch_step to a value in 3..7; a frame that starts with glitch_step
\* above 0 takes one off it and applies the transform whatever the mode is;
\* and outside continuous mode no other frame applies it, so a burst of n is
\* applied on the n frames that follow.
C32_BurstCountdown ==
    [][/\ clock.glitch_step \in 0..BURST_MAX
       /\ clock'.glitch_step \in 0..BURST_MAX
       /\ (frames' # frames /\ ~clock'.ev.dark /\ clock'.exc # "Error") =>
            /\ clock'.ev.g_roll <=>
                  (clock.glitch_mode = GLITCH_MODE_RANDOM /\ GStepAfter = 0)
            /\ clock'.ev.g_burst <=>
                  (clock'.ev.g_roll /\ clock'.ev.g_draw <= clock.glitch_freq)
            /\ IF clock'.ev.g_burst
               THEN clock'.glitch_step \in BURST_MIN..BURST_MAX
               ELSE clock'.glitch_step = GStepAfter
            /\ clock.glitch_step > 0 => clock'.image.glitches >= 1
            /\ (clock.glitch_step = 0 /\ clock.glitch_mode # GLITCH_MODE_ON)
                  => clock'.image.glitches = 0]_vars

C32_Witness ==
    /\ Accepted("set_random_glitch")
    /\ cmd.args[1] = 0
    /\ pre.glitch_mode = GLITCH_MODE_RANDOM
    /\ since > MaxReal
    /\ clock.glitch_step > 0
    /\ clock.image.glitches = 1

\* The fade, the countdowns and the scroll offset.
Progress(st) ==
    [brightness |-> st.brightness, fade_elapsed |-> st.fade_elapsed,
     target_brightness |-> st.target_brightness,
     fade_snap_time |-> st.fade_snap_time, current_time |-> st.current_time,
     x_glitch_step |-> st.x_glitch_step, x_positions |-> st.x_positions,
     x_glitch_mode |-> st.x_glitch_mode, glitch_step |-> st.glitch_step,
     numbers_glitch_step |-> st.numbers_glitch_step,
     text_scroll_offset |-> st.text_scroll_offset,
     snapped |-> st.ev.snapped, faded |-> st.ev.faded]

\* C33: a frame blanked because show_numbers is false has run the fade
\* controller step: a pending fade has advanced by the frame's real elapsed
\* time, a pending snap fires in it as in a drawn frame, and the X, numeral
\* and visual glitch countdowns and the scroll offset are left as a drawn
\* frame from the same state would leave them.
C33_BlankFrameStillFades ==
    [][(/\ frames' # frames /\ ~clock'.ev.dark /\ clock'.exc = "Cleared") =>
          /\ ~clock'.show_numbers
          /\ clock.brightness # clock.target_brightness =>
                /\ clock'.ev.faded
                /\ clock'.fade_elapsed =
                       clock.fade_elapsed + clock'.real_elapsed
          /\ \E st \in render([clock EXCEPT !.blink_all = FALSE,
                                            !.show_numbers = TRUE],
                              clock'.real_elapsed) :
                /\ st.exc = ""
                /\ Progress(st) = Progress(clock')]_vars

C33_Witness ==
    /\ since > 0
    /\ matrix = "Clear"
    /\ ~clock.ev.dark
    /\ ~clock.show_numbers
    /\ clock.ev.snapped
    /\ clock.ev.faded

\* The slots the frame buffer of state st shows an X in.
XSlots(st) == {i \in Slots : st.image.slots[i + 1].glyph = "X"}

\* The positions the last command gave, when it was set_x_positions with a
\* string of four.
ExplicitX ==
    {i \in Slots : cmd.args[1][i + 1] = "X"}

\* C34: a frame rendered with x_glitch_mode off shows an X exactly in the
\* slots the most recent set_x_positions gave (in none when there was no such
\* command), and leaves x_positions as it was.
C34_OffShowsOnlyExplicitX ==
    [][(/\ frames' # frames /\ clock.x_glitch_mode = GLITCH_MODE_OFF
        /\ ~clock'.ev.dark /\ clock'.exc # "Error") =>
          /\ (cmd.name = "set_x_positions" /\ Len(cmd.args[1]) = 4) =>
                /\ XSlots(clock') = ExplicitX
                /\ clock'.x_positions = clock.x_positions
          /\ (ncmd <= 1 /\ cmd.name # "set_x_positions") =>
                XSlots(clock') = {}]_vars

\* The same after set_x_positions alone.
ExplicitXPersists ==
    [][(/\ frames' # frames /\ clock.x_glitch_mode = GLITCH_MODE_OFF
        /\ ~clock'.ev.dark /\ clock'.exc # "Error"
        /\ cmd.name = "set_x_positions" /\ Len(cmd.args[1]) = 4) =>
          /\ XSlots(clock') = ExplicitX
          /\ clock'.x_positions = clock.x_positions]_vars

\* C35: in every reachable state blink_all = false implies show_numbers =
\* true, so a frame that is not dark is blanked only while blink_all is on.
C35_NumbersShownUnlessBlinkAll ==
    /\ ~clock.blink_all => clock.show_numbers
    /\ (since > 0 /\ matrix = "Clear" /\ ~clock.ev.dark) => clock.blink_all

C35_Witness ==
    /\ Accepted("set_blink_all")
    /\ cmd.args[1] = 0
    /\ since = 0
    /\ matrix = "Clear"
    /\ ~clock.ev.dark
    /\ clock.show_numbers

\* C36: in every reachable state, after any order of set_blink_dots,
\* set_blink_all and set_normal calls and frames, blink_dots = false and
\* blink_all = false imply show_dots = true.
C36_DotsShownWhenNoBlink ==
    (~clock.blink_dots /\ ~clock.blink_all) => clock.show_dots

\* The same while the last command is set_blink_dots.
DotsShownAfterBlinkDots ==
    cmd.name = "set_blink_dots" => C36_DotsShownWhenNoBlink

\* C37: the snap fires (current_time is set to fade_snap_time) only in a
\* frame that completes the fade to brightness 0 that set_fadesnap started:
\* never at the end of a fade started by a set_brightness that came after the
\* set_fadesnap.
C37_SnapOnlyAfterOwnFade ==
    [][(frames' # frames /\ clock'.ev.snapped) =>
          /\ cmd.name # "set_brightness"
          /\ clock'.brightness = FInt(0)
          /\ clock'.current_time = clock.fade_snap_time]_vars

\* The same for the snaps that no set_brightness came before.
SnapAfterFadesnapAlone ==
    [][(frames' # frames /\ clock'.ev.snapped /\ cmd.name # "set_brightness")
          => /\ clock'.brightness = FInt(0)
             /\ clock'.current_time = clock.fade_snap_time]_vars

\* What a frame of the dark display may change: the time cursor, the elapsed
\* time it was advanced by, the blink state, and the frame's own image, record
\* of events and outcome.
DarkFrameMoves ==
    {"current_time", "real_elapsed", "blink_state", "show_dots",
     "show_numbers", "image", "ev", "exc"}

\* C38: a frame rendered with brightness and target_brightness both 0 is a
\* blank frame that advances only the time cursor and the blink state:
\* x_glitch_step, x_positions, x_glitch_mode, glitch_step, numbers_glitch_step,
\* text_scroll_offset, fade_elapsed, brightness, the pending snap and every
\* other field are as before the frame, and nothing was rolled, drawn, faded
\* or snapped.
C38_DarkFrameOnlyTicks ==
    [][(/\ frames' # frames
        /\ clock.brightness = FInt(0) /\ clock.target_brightness = FInt(0)) =>
          /\ clock'.ev = [NoEvents EXCEPT !.dark = TRUE]
          /\ matrix' = "Clear"
          /\ \A f \in DOMAIN clock \ DarkFrameMoves : clock'[f] = clock[f]
          /\ clock'.current_time = tick_tock(clock, clock'.real_elapsed).current_time
          /\ clock'.image = NewImage(clock.background)]_vars

C38_Witness ==
    /\ since > 0
    /\ clock.ev.dark
    /\ clock.x_glitch_mode = GLITCH_MODE_SINGLE
    /\ clock.fade_snap_time # NoTime
    /\ clock.current_time # pre.current_time

\* An X overlay is on the display, and the generator is in random mode in a
\* frame in which it did not roll.
XHeld == clock.x_positions # <<>>
XIdle == clock.x_glitch_mode = GLITCH_MODE_RANDOM /\ clock.ev.x_ran
             /\ ~clock.ev.x_roll
XCleared == clock.ev.x_cleared
XRolled == clock.ev.x_roll \/ clock.x_glitch_mode # GLITCH_MODE_RANDOM

\* C39: with drawn frames going on, every X overlay that set_single_x_glitch
\* or set_random_x_glitch has triggered, whatever the frames argument, is
\* eventually cleared from x_positions by the countdown; and in random mode a
\* frame without a roll is eventually followed by a roll, unless a command
\* leaves the random mode first.
C39_XNeverStuck ==
    /\ XHeld ~> XCleared
    /\ XIdle ~> XRolled

\* The same for the overlays whose countdown is running, while no command
\* sets a frame count below 1.
XNeverStuckForPositive ==
    /\ (XHeld /\ clock.x_glitch_step >= 1)
          ~> (XCleared \/ clock.x_glitch_frames < 1)
    /\ (XIdle /\ clock.x_glitch_step >= 1)
          ~> (XRolled \/ clock.x_glitch_frames < 1)

\* C40: set_freeze is idempotent in both directions: set_freeze(1) while
\* already frozen keeps the frozen instant (freeze_time is not captured again
\* from current_time) and the time cursor, and set_freeze(0) while not frozen
\* changes neither current_time nor freeze_time; either call leaves the whole
\* clock as it was.
C40_FreezeIdempotent ==
    [][(/\ ncmd' # ncmd /\ cmd'.name = "set_freeze"
        /\ (cmd'.args[1] # 0) = (clock.freeze_time # NoTime)) =>
          /\ ~cmd'.rejected
          /\ clock'.freeze_time = clock.freeze_time
          /\ clock'.current_time = clock.current_time
          /\ clock' = clock]_vars

C40_Witness ==
    /\ Accepted("set_freeze")
    /\ since = 0
    /\ cmd.args[1] = 1
    /\ pre.freeze_time # NoTime
    /\ pre.current_time # pre.freeze_time
    /\ clock.freeze_time = pre.freeze_time

====
